---- MODULE Spec2Model ----
(***************************************************************************)
(* A model of the command-line utilities of afm/cli.py: format_cell, the   *)
(* dedup filter, the sms carrier lookup, purchase_bulk and purchase.       *)
(* Each command is a sequential program; its model is a state machine over *)
(* the command's local variables, its position (pc) and the calls it has   *)
(* made on the telephony provider.  One specification per command: the     *)
(* variables of the other commands stay idle.                              *)
(*                                                                         *)
(* A Python string is a sequence of one-character strings.                 *)
(***************************************************************************)
EXTENDS Integers, Sequences, FiniteSets, TLC

VARIABLES
    \* format_cell applied to an input, and again to its own output
    raw, formatted, reformatted, fpc,
    \* dedup
    superset, subset, subset_numbers, dpos, output, dup_count, untouched_count, dpc,
    \* sms
    sms_rows, sms_out, error_count, carrier_count, lookups, lookup_answers, spc,
    \* purchase_bulk
    bpc, count, pass_len, numbers_left, ret, bought, bulk_attach_calls, buy_failed,
    attach_failed,
    \* purchase
    ppc, auto_purchase, service_sid, requests, purchase_order, area_idx, num_idx,
    row, results, purchase_calls, attach_calls, failures, confirmation

fmtVars == <<raw, formatted, reformatted, fpc>>
dedupVars == <<superset, subset, subset_numbers, dpos, output, dup_count, untouched_count, dpc>>
smsVars == <<sms_rows, sms_out, error_count, carrier_count, lookups, lookup_answers, spc>>
bulkVars == <<bpc, count, pass_len, numbers_left, ret, bought, bulk_attach_calls, buy_failed,
              attach_failed>>
purchaseVars == <<ppc, auto_purchase, service_sid, requests, purchase_order, area_idx, num_idx,
                  row, results, purchase_calls, attach_calls, failures, confirmation>>
vars == <<fmtVars, dedupVars, smsVars, bulkVars, purchaseVars>>

----------------------------------------------------------------------------
(* Helpers on sequences and dictionaries *)

Range(s) == {s[i] : i \in 1..Len(s)}

Min(a, b) == IF a < b THEN a ELSE b

Max(a, b) == IF a < b THEN b ELSE a

\* All sequences over S of length at most n
SeqsUpTo(S, n) == UNION {[1..k -> S] : k \in 0..n}

RECURSIVE Flatten(_)
\* The concatenation of a sequence of strings
Flatten(ss) == IF ss = <<>> THEN <<>> ELSE Head(ss) \o Flatten(Tail(ss))

\* Python s[-n:] for n > 0
LastChars(s, n) == IF Len(s) <= n THEN s ELSE SubSeq(s, Len(s) - n + 1, Len(s))

\* Python s[0:stop]: a negative stop counts from the end
SliceTo(s, stop) ==
    LET end == IF stop < 0 THEN Max(Len(s) + stop, 0) ELSE Min(stop, Len(s))
    IN  SubSeq(s, 1, end)

\* A defaultdict(int) is a function on the keys it holds; a missing key reads 0
DictGet(d, k) == IF k \in DOMAIN d THEN d[k] ELSE 0

DictIncr(d, k) == [x \in (DOMAIN d) \cup {k} |-> IF x = k THEN DictGet(d, k) + 1 ELSE d[x]]

EmptyDict == [x \in {} |-> 0]

RECURSIVE SumOver(_, _)
\* The sum of d's values over the keys K
SumOver(d, K) ==
    IF K = {} THEN 0
    ELSE LET k == CHOOSE x \in K : TRUE IN d[k] + SumOver(d, K \ {k})

----------------------------------------------------------------------------
(* format_cell *)

\* str.strip() removes these at both ends (space and tab stand for all whitespace)
Whitespace == {" ", "\t"}

Digits == {"0", "1", "2", "3", "4", "5", "6", "7", "8", "9"}

\* cell[-10:]
CellDigits == 10

RECURSIVE LStrip(_)
LStrip(s) == IF s # <<>> /\ Head(s) \in Whitespace THEN LStrip(Tail(s)) ELSE s

RECURSIVE RStrip(_)
RStrip(s) ==
    IF s # <<>> /\ s[Len(s)] \in Whitespace THEN RStrip(SubSeq(s, 1, Len(s) - 1)) ELSE s

\* str.strip(), with a bug: nothing is stripped
StripNothing(s) == s

\* str.strip()
Strip(s) == LStrip(RStrip(s))

\* str.replace(c, '')
Remove(s, c) == SelectSeq(s, LAMBDA ch : ch # c)

\* cell[-10:], with a bug: the first ten characters
CellTenFirst(cell) == SubSeq(cell, 1, Min(Len(cell), CellDigits))

\* cell_ten = cell[-10:]
CellTen(cell) == LastChars(cell, CellDigits)

format_cell(cell) ==
    LET c1 == Strip(cell)
        c2 == Remove(c1, " ")
        c3 == Remove(c2, "(")
        c4 == Remove(c3, ")")
        c5 == Remove(c4, "-")
    IN  <<"+", "1">> \o CellTen(c5)

\* Pieces that raw phone numbers are made of
Tokens ==
    { <<"(", "5", "1", "7", ")">>, <<" ">>, <<"5", "5", "5", "-">>, <<"1", "2", "3", "4">>,
      <<"+", "1">>, <<"\t">>, <<"9">> }

MaxTokens == 4

RawCells == {Flatten(ts) : ts \in SeqsUpTo(Tokens, MaxTokens)}

FormatIdle == raw = <<>> /\ formatted = <<>> /\ reformatted = <<>> /\ fpc = "idle"

FormatStart == raw \in RawCells /\ formatted = <<>> /\ reformatted = <<>> /\ fpc = "raw"

\* formatted = format_cell(raw)
Format ==
    /\ fpc = "raw"
    /\ formatted' = format_cell(raw)
    /\ fpc' = "formatted"
    /\ UNCHANGED <<raw, reformatted>>
    /\ UNCHANGED <<dedupVars, smsVars, bulkVars, purchaseVars>>

\* reformatted = format_cell(format_cell(raw))
Reformat ==
    /\ fpc = "formatted"
    /\ reformatted' = format_cell(formatted)
    /\ fpc' = "reformatted"
    /\ UNCHANGED <<raw, formatted>>
    /\ UNCHANGED <<dedupVars, smsVars, bulkVars, purchaseVars>>

----------------------------------------------------------------------------
(* dedup *)

\* The cell values of the two csv files: two numbers, each in several spellings
Cell1234 == <<"5", "1", "7", "5", "5", "5", "1", "2", "3", "4">>

Cell9999 == <<"5", "1", "7", "5", "5", "5", "9", "9", "9", "9">>

DedupCells ==
    { Cell1234,
      <<"(", "5", "1", "7", ")", " ">> \o <<"5", "5", "5", "-", "1", "2", "3", "4">>,
      <<"+", "1">> \o Cell9999,
      Cell9999 }

\* A superset row: the cell column and one passthrough column
SupersetRows == [cell : DedupCells, name : {"ann", "bob"}]

\* A subset row: the contact[cell] column
SubsetRows == [contact_cell : DedupCells]

MaxSuperset == 2

MaxSubset == 2

DedupIdle ==
    /\ superset = <<>> /\ subset = <<>> /\ subset_numbers = {} /\ dpos = 0
    /\ output = <<>> /\ dup_count = 0 /\ untouched_count = 0 /\ dpc = "idle"

\* The two readers and the writer are open, nothing is read yet
DedupStart ==
    /\ superset \in SeqsUpTo(SupersetRows, MaxSuperset)
    /\ subset \in SeqsUpTo(SubsetRows, MaxSubset)
    /\ subset_numbers = {} /\ dpos = 0
    /\ output = <<>> /\ dup_count = 0 /\ untouched_count = 0 /\ dpc = "subset"

\* subset_numbers = set([format_cell(row['contact[cell]']) for row in subset_reader])
ReadSubset ==
    /\ dpc = "subset"
    /\ subset_numbers' = {format_cell(subset[i].contact_cell) : i \in 1..Len(subset)}
    /\ dpc' = "loop"
    /\ UNCHANGED <<superset, subset, dpos, output, dup_count, untouched_count>>
    /\ UNCHANGED <<fmtVars, smsVars, bulkVars, purchaseVars>>

\* The test of the loop with a bug: the raw cell is looked up
IsNewRaw(r, numbers) == r.cell \notin numbers

\* cell = format_cell(row['cell']); cell not in subset_numbers
IsNew(r, numbers) == format_cell(r.cell) \notin numbers

\* One pass of the loop over superset_reader
DedupRow ==
    /\ dpc = "loop"
    /\ dpos < Len(superset)
    /\ LET r == superset[dpos + 1] IN
         IF IsNew(r, subset_numbers)
         THEN /\ output' = Append(output, r)
              /\ untouched_count' = untouched_count + 1
              /\ UNCHANGED dup_count
         ELSE /\ dup_count' = dup_count + 1
              /\ UNCHANGED <<output, untouched_count>>
    /\ dpos' = dpos + 1
    /\ UNCHANGED <<superset, subset, subset_numbers, dpc>>
    /\ UNCHANGED <<fmtVars, smsVars, bulkVars, purchaseVars>>

\* The reader is exhausted: the two counts are reported
DedupReport ==
    /\ dpc = "loop"
    /\ dpos = Len(superset)
    /\ dpc' = "done"
    /\ UNCHANGED <<superset, subset, subset_numbers, dpos, output, dup_count, untouched_count>>
    /\ UNCHANGED <<fmtVars, smsVars, bulkVars, purchaseVars>>

----------------------------------------------------------------------------
(* sms *)

\* if error_code == '30007'
TargetErrorCode == "30007"

ErrorCodes == {"30007", "30005", "30003"}

Destinations == {"5175551234", "5175559999"}

\* What the carrier lookup answers
Carriers == {"Verizon", "Sprint"}

\* A row of the error log: the ErrorCode and To columns
SmsRows == [ErrorCode : ErrorCodes, To : Destinations]

MaxSmsRows == 3

SmsIdle ==
    /\ sms_rows = <<>> /\ sms_out = <<>> /\ error_count = EmptyDict
    /\ carrier_count = EmptyDict /\ lookups = <<>> /\ lookup_answers = <<>> /\ spc = "idle"

\* The reader and the writer are open, the two tallies are empty; lookups holds the
\* numbers looked up so far and lookup_answers what the provider answered to each
SmsStart ==
    /\ sms_rows = <<>> /\ sms_out = <<>> /\ error_count = EmptyDict
    /\ carrier_count = EmptyDict /\ lookups = <<>> /\ lookup_answers = <<>> /\ spc = "loop"

\* The test with a bug: every row is looked up
NeedsLookupAlways(error_code) == TRUE

\* if error_code == '30007'
NeedsLookup(error_code) == error_code = TargetErrorCode

\* error_count[error_code] += 1
TallyError(tally, error_code) == DictIncr(tally, error_code)

\* The row written, with a bug: the carrier found is not put in the row
OutputRowNoCarrier(r, carrier) == [ErrorCode |-> r.ErrorCode, To |-> r.To, Carrier |-> ""]

\* The row handed to writer.writerow: the input columns and the Carrier column, which
\* is row['Carrier'] = carrier_name after a lookup and is written empty otherwise
OutputRow(r, carrier) == [ErrorCode |-> r.ErrorCode, To |-> r.To, Carrier |-> carrier]

\* One pass of the loop over the reader, for the row r; the lookup, when one is made,
\* answers the carrier named or raises
SmsRow(r, answer) ==
    /\ spc = "loop"
    /\ Len(sms_rows) < MaxSmsRows
    /\ sms_rows' = Append(sms_rows, r)
    /\ error_count' = TallyError(error_count, r.ErrorCode)
    /\ IF NeedsLookup(r.ErrorCode)
       THEN /\ answer \in Carriers \cup {"raise"}
            /\ lookups' = Append(lookups, r.To)
            /\ lookup_answers' = Append(lookup_answers, answer)
            /\ IF answer = "raise"
               THEN /\ spc' = "aborted"
                    /\ UNCHANGED <<carrier_count, sms_out>>
               ELSE /\ carrier_count' = DictIncr(carrier_count, answer)
                    /\ sms_out' = Append(sms_out, OutputRow(r, answer))
                    /\ UNCHANGED spc
       ELSE /\ answer = "none"
            /\ sms_out' = Append(sms_out, OutputRow(r, ""))
            /\ UNCHANGED <<lookups, lookup_answers, carrier_count, spc>>
    /\ UNCHANGED <<fmtVars, dedupVars, bulkVars, purchaseVars>>

\* The reader is exhausted: the tallies are printed
SmsReport ==
    /\ spc = "loop"
    /\ spc' = "done"
    /\ UNCHANGED <<sms_rows, sms_out, error_count, carrier_count, lookups, lookup_answers>>
    /\ UNCHANGED <<fmtVars, dedupVars, bulkVars, purchaseVars>>

----------------------------------------------------------------------------
(* purchase_bulk *)

\* x = { 'count': 400 }
Cap == 400

\* The most numbers one availability query returns
MaxBulkAvailable == 2

BulkIdle ==
    /\ bpc = "idle" /\ count = 0 /\ pass_len = 0 /\ numbers_left = 0 /\ ret = TRUE
    /\ bought = 0 /\ bulk_attach_calls = 0 /\ buy_failed = FALSE /\ attach_failed = FALSE

\* Nothing is bought yet: bought counts the numbers the provider has sold to the
\* account, bulk_attach_calls the numbers the command has tried to attach
BulkStart ==
    /\ bpc = "create" /\ count = 0 /\ pass_len = 0 /\ numbers_left = 0 /\ ret = TRUE
    /\ bought = 0 /\ bulk_attach_calls = 0 /\ buy_failed = FALSE /\ attach_failed = FALSE

\* client.messaging.services.create(...), then x = { 'count': 400 }; on an error the
\* command returns
CreateService(ok) ==
    /\ bpc = "create"
    /\ IF ok THEN count' = Cap /\ bpc' = "query" ELSE bpc' = "failed" /\ UNCHANGED count
    /\ UNCHANGED <<pass_len, numbers_left, ret, bought, bulk_attach_calls, buy_failed,
                   attach_failed>>
    /\ UNCHANGED <<fmtVars, dedupVars, smsVars, purchaseVars>>

\* buy_numbers starts: numbers = client.available_phone_numbers('US').local.list(...)
BulkQuery(n) ==
    /\ bpc = "query"
    /\ pass_len' = n
    /\ numbers_left' = n
    /\ bpc' = "buy"
    /\ UNCHANGED <<count, ret, bought, bulk_attach_calls, buy_failed, attach_failed>>
    /\ UNCHANGED <<fmtVars, dedupVars, smsVars, purchaseVars>>

\* The counter after a failed purchase, with a bug: the failure is counted too
CountAfterFailureCounted(c) == c - 1

\* The counter after a failed purchase: the except branch leaves x['count'] alone
CountAfterFailure(c) == c

\* The next number of the for loop: client.incoming_phone_numbers.create(...);
\* bought, x['count'] - 1 and on to the attach; or an error, and continue
BulkBuy(ok) ==
    /\ bpc = "buy"
    /\ numbers_left > 0
    /\ numbers_left' = numbers_left - 1
    /\ IF ok
       THEN /\ bought' = bought + 1
            /\ count' = count - 1
            /\ bpc' = "attach"
            /\ UNCHANGED buy_failed
       ELSE /\ count' = CountAfterFailure(count)
            /\ buy_failed' = TRUE
            /\ UNCHANGED <<bought, bpc>>
    /\ UNCHANGED <<pass_len, ret, bulk_attach_calls, attach_failed>>
    /\ UNCHANGED <<fmtVars, dedupVars, smsVars, purchaseVars>>

\* if x['count'] < 1: return False
CapacityReached(c) == c < 1

\* The attach of the number just bought, inside its try; then the capacity test
BulkAttach(ok) ==
    /\ bpc = "attach"
    /\ bulk_attach_calls' = bulk_attach_calls + 1
    /\ attach_failed' = (attach_failed \/ ~ok)
    /\ IF CapacityReached(count)
       THEN ret' = FALSE /\ bpc' = "test"
       ELSE bpc' = "buy" /\ UNCHANGED ret
    /\ UNCHANGED <<count, pass_len, numbers_left, bought, buy_failed>>
    /\ UNCHANGED <<fmtVars, dedupVars, smsVars, purchaseVars>>

\* The for loop is exhausted: return True
BulkPassEnd ==
    /\ bpc = "buy"
    /\ numbers_left = 0
    /\ ret' = TRUE
    /\ bpc' = "test"
    /\ UNCHANGED <<count, pass_len, numbers_left, bought, bulk_attach_calls, buy_failed,
                   attach_failed>>
    /\ UNCHANGED <<fmtVars, dedupVars, smsVars, purchaseVars>>

\* while buy_numbers(): pass
BulkWhile ==
    /\ bpc = "test"
    /\ bpc' = IF ret THEN "query" ELSE "done"
    /\ UNCHANGED <<count, pass_len, numbers_left, ret, bought, bulk_attach_calls, buy_failed,
                   attach_failed>>
    /\ UNCHANGED <<fmtVars, dedupVars, smsVars, purchaseVars>>

----------------------------------------------------------------------------
(* purchase *)

AreaCodes == {"517", "313"}

\* The most rows of the input csv
MaxRows == 2

\* The most numbers one availability query returns
MaxAvailable == 2

\* The quantity column: int(row['quantity']) accepts any integer; a negative one,
\* none, one, and more than a query returns
Quantities == {0 - 1, 0, 1, MaxAvailable + 1}

\* The most numbers of one run whose purchase or attach fails
MaxFailures == 1

\* A key a row dict does not hold; csv.DictWriter writes it as the empty string
Absent == "absent"

\* The a numbers a query for area_code returns, in the provider's order
AvailableNumbers(area_code, a) == [i \in 1..a |-> <<area_code, i>>]

\* A dict keeps its keys in insertion order; assigning to a key it holds keeps the place
EmptyOrder == [keys |-> <<>>, numbers |-> [k \in {} |-> <<>>]]

\* purchase_order[area_code] = ..., with a bug: the numbers are added to the entry
OrderSetSummed(order, k, v) ==
    [keys |-> IF k \in Range(order.keys) THEN order.keys ELSE Append(order.keys, k),
     numbers |-> [x \in (DOMAIN order.numbers) \cup {k} |->
                    IF x # k THEN order.numbers[x]
                    ELSE IF k \in DOMAIN order.numbers THEN order.numbers[k] \o v ELSE v]]

OrderSet(order, k, v) ==
    [keys |-> IF k \in Range(order.keys) THEN order.keys ELSE Append(order.keys, k),
     numbers |-> [x \in (DOMAIN order.numbers) \cup {k} |->
                    IF x = k THEN v ELSE order.numbers[x]]]

\* The numbers of the order, in the order the two for loops visit them
RECURSIVE OrderNumbersFrom(_, _)
OrderNumbersFrom(order, i) ==
    IF i > Len(order.keys) THEN <<>>
    ELSE order.numbers[order.keys[i]] \o OrderNumbersFrom(order, i + 1)

OrderNumbers(order) == OrderNumbersFrom(order, 1)

PurchaseIdle ==
    /\ ppc = "idle" /\ auto_purchase = FALSE /\ service_sid = FALSE
    /\ requests = [c \in AreaCodes |-> <<>>]
    /\ purchase_order = EmptyOrder /\ area_idx = 0 /\ num_idx = 0 /\ row = <<>>
    /\ results = <<>> /\ purchase_calls = <<>> /\ attach_calls = <<>> /\ failures = 0
    /\ confirmation = "none"

\* The options are parsed, purchase_order = {}; service_sid is TRUE when a non-empty
\* --service-sid was given.  requests[c] holds the rows read so far for area code c,
\* in input order, each with what the provider and the operator answered;
\* purchase_calls and attach_calls hold the numbers the provider was asked to sell and
\* the numbers the attach block ran for; confirmation is the operator's final answer.
PurchaseStart ==
    /\ ppc = "read" /\ auto_purchase \in BOOLEAN /\ service_sid \in BOOLEAN
    /\ requests = [c \in AreaCodes |-> <<>>]
    /\ purchase_order = EmptyOrder /\ area_idx = 0 /\ num_idx = 0 /\ row = <<>>
    /\ results = <<>> /\ purchase_calls = <<>> /\ attach_calls = <<>> /\ failures = 0
    /\ confirmation = "none"

\* The number of rows read so far
RowsRead == SumOver([c \in AreaCodes |-> Len(requests[c])], AreaCodes)

\* A row is skipped when nothing is available, or when less than requested is
\* available and neither --auto-purchase nor the operator accepts the lesser count
RowAccepted(q, a, auto, answer) ==
    /\ a # 0
    /\ (a < q) => (auto \/ answer)

\* numbers[0:requested_quantity], with a bug: every available number is ordered
SelectedAll(numbers, requested_quantity) == numbers

\* numbers[0:requested_quantity]
Selected(numbers, requested_quantity) == SliceTo(numbers, requested_quantity)

\* One pass of the first loop: a row (area_code, quantity) is read, the provider
\* answers a available numbers, the operator answers the prompt if it is shown
ReadRow(area_code, q, a, answer) ==
    /\ ppc = "read"
    /\ RowsRead < MaxRows
    /\ LET numbers == AvailableNumbers(area_code, a)
           accepted == RowAccepted(q, Len(numbers), auto_purchase, answer)
       IN  /\ requests' = [requests EXCEPT ![area_code] =
                             Append(@, [quantity |-> q, available |-> Len(numbers),
                                        accepted |-> accepted])]
           /\ purchase_order' = IF accepted
                                THEN OrderSet(purchase_order, area_code, Selected(numbers, q))
                                ELSE purchase_order
    /\ UNCHANGED <<ppc, auto_purchase, service_sid, area_idx, num_idx, row, results,
                   purchase_calls, attach_calls, failures, confirmation>>
    /\ UNCHANGED <<fmtVars, dedupVars, smsVars, bulkVars>>

\* The reader is exhausted: the order is shown
EndOfInput ==
    /\ ppc = "read"
    /\ ppc' = "confirm"
    /\ UNCHANGED <<auto_purchase, service_sid, requests, purchase_order, area_idx, num_idx, row,
                   results, purchase_calls, attach_calls, failures, confirmation>>
    /\ UNCHANGED <<fmtVars, dedupVars, smsVars, bulkVars>>

\* The first position at or after (i, j) of the two for loops that holds a number,
\* or <<0, 0>> when the loops are exhausted
RECURSIVE Position(_, _, _)
Position(order, i, j) ==
    IF i > Len(order.keys) THEN <<0, 0>>
    ELSE IF j <= Len(order.numbers[order.keys[i]]) THEN <<i, j>>
    ELSE Position(order, i + 1, 1)

\* The answer to click.confirm(..., abort=True), with a bug: a refusal does not abort
AfterConfirmNoAbort(answer, pos) == IF pos = <<0, 0>> THEN "done" ELSE "buy"

\* click.confirm('\nIs this correct?', abort=True): a refusal raises Abort
AfterConfirm(answer, pos) ==
    IF ~answer THEN "aborted" ELSE IF pos = <<0, 0>> THEN "done" ELSE "buy"

\* The operator answers the final confirmation; on yes the header is written and
\* the loops start
Confirm(answer) ==
    /\ ppc = "confirm"
    /\ LET pos == Position(purchase_order, 1, 1) IN
         /\ ppc' = AfterConfirm(answer, pos)
         /\ area_idx' = IF ppc' = "buy" THEN pos[1] ELSE 0
         /\ num_idx' = IF ppc' = "buy" THEN pos[2] ELSE 0
    /\ confirmation' = IF answer THEN "yes" ELSE "no"
    /\ UNCHANGED <<auto_purchase, service_sid, requests, purchase_order, row, results,
                   purchase_calls, attach_calls, failures>>
    /\ UNCHANGED <<fmtVars, dedupVars, smsVars, bulkVars>>

\* The for loops after a failed purchase, with a bug: the rest of the order is given up
AfterPurchaseAbortOnError(ok, service) == IF ~ok THEN "done" ELSE IF service THEN "attach" ELSE "write"

\* After the purchase try: `if service_sid:` alone decides whether the attach block
\* runs; the outcome of the purchase is not consulted
AfterPurchase(ok, service) == IF service THEN "attach" ELSE "write"

\* row = {area_code, number}; client.incoming_phone_numbers.create(phone_number=...)
\* returns (ok) or raises
PurchaseNumber(ok) ==
    /\ ppc = "buy"
    /\ ok \/ failures < MaxFailures
    /\ LET area_code == purchase_order.keys[area_idx]
           phone_number == purchase_order.numbers[area_code][num_idx]
       IN  /\ purchase_calls' = Append(purchase_calls, phone_number)
           /\ row' = [area_code |-> area_code,
                      number |-> phone_number,
                      purchase_status |-> IF ok THEN "success" ELSE "error",
                      service_status |-> Absent,
                      message |-> IF ok THEN Absent ELSE "purchase failed"]
    /\ failures' = IF ok THEN failures ELSE failures + 1
    /\ ppc' = AfterPurchase(ok, service_sid)
    /\ UNCHANGED <<auto_purchase, service_sid, requests, purchase_order, area_idx, num_idx,
                   results, attach_calls, confirmation>>
    /\ UNCHANGED <<fmtVars, dedupVars, smsVars, bulkVars>>

\* The row after the attach block, with a bug: the except branch sets no message
RowAfterAttachNoMessage(r, ok) ==
    [r EXCEPT !.service_status = IF ok THEN "success" ELSE "error"]

\* row['service_status'] = 'success', or in the except branch
\* row['service_status'] = 'error' and row['message'] = str(exc)
RowAfterAttach(r, ok) ==
    IF ok
    THEN [r EXCEPT !.service_status = "success"]
    ELSE [r EXCEPT !.service_status = "error", !.message = "attach failed"]

\* The attach block: the sid of the number is looked up among the owned numbers and
\* the number is added to the messaging service (ok), or one of the two raises.
\* After a failed purchase a failed attach is no further fault of the provider.
AttachNumber(ok) ==
    /\ ppc = "attach"
    /\ ok \/ row.purchase_status = "error" \/ failures < MaxFailures
    /\ attach_calls' = Append(attach_calls, row.number)
    /\ row' = RowAfterAttach(row, ok)
    /\ failures' = IF ok \/ row.purchase_status = "error" THEN failures ELSE failures + 1
    /\ ppc' = "write"
    /\ UNCHANGED <<auto_purchase, service_sid, requests, purchase_order, area_idx, num_idx,
                   results, purchase_calls, confirmation>>
    /\ UNCHANGED <<fmtVars, dedupVars, smsVars, bulkVars>>

\* The output with a bug: each write starts the file over
WrittenAlone(rows, r) == <<r>>

\* The output after writer.writerow(row): the row follows the rows written before
Written(rows, r) == Append(rows, r)

\* writer.writerow(row), and on to the next number of the two for loops
WriteRow ==
    /\ ppc = "write"
    /\ results' = Written(results, row)
    /\ LET pos == Position(purchase_order, area_idx, num_idx + 1) IN
         /\ ppc' = IF pos = <<0, 0>> THEN "done" ELSE "buy"
         /\ area_idx' = pos[1]
         /\ num_idx' = pos[2]
    /\ UNCHANGED <<auto_purchase, service_sid, requests, purchase_order, row, purchase_calls,
                   attach_calls, failures, confirmation>>
    /\ UNCHANGED <<fmtVars, dedupVars, smsVars, bulkVars>>

----------------------------------------------------------------------------
(* The specifications, one per command *)

InitFormat == FormatStart /\ DedupIdle /\ SmsIdle /\ BulkIdle /\ PurchaseIdle

NextFormat == Format \/ Reformat

SpecFormat == InitFormat /\ [][NextFormat]_vars

InitDedup == FormatIdle /\ DedupStart /\ SmsIdle /\ BulkIdle /\ PurchaseIdle

NextDedup == ReadSubset \/ DedupRow \/ DedupReport

SpecDedup == InitDedup /\ [][NextDedup]_vars

InitSms == FormatIdle /\ DedupIdle /\ SmsStart /\ BulkIdle /\ PurchaseIdle

NextSms ==
    \/ \E r \in SmsRows, answer \in Carriers \cup {"raise", "none"} : SmsRow(r, answer)
    \/ SmsReport

SpecSms == InitSms /\ [][NextSms]_vars

InitBulk == FormatIdle /\ DedupIdle /\ SmsIdle /\ BulkStart /\ PurchaseIdle

NextBulk ==
    \/ \E ok \in BOOLEAN : CreateService(ok)
    \/ \E n \in 0..MaxBulkAvailable : BulkQuery(n)
    \/ \E ok \in BOOLEAN : BulkBuy(ok)
    \/ \E ok \in BOOLEAN : BulkAttach(ok)
    \/ BulkPassEnd
    \/ BulkWhile

SpecBulk == InitBulk /\ [][NextBulk]_vars

InitPurchase == FormatIdle /\ DedupIdle /\ SmsIdle /\ BulkIdle /\ PurchaseStart

NextPurchase ==
    \/ \E area_code \in AreaCodes, q \in Quantities, a \in 0..MaxAvailable, answer \in BOOLEAN :
         ReadRow(area_code, q, a, answer)
    \/ EndOfInput
    \/ \E answer \in BOOLEAN : Confirm(answer)
    \/ \E ok \in BOOLEAN : PurchaseNumber(ok)
    \/ \E ok \in BOOLEAN : AttachNumber(ok)
    \/ WriteRow

SpecPurchase == InitPurchase /\ [][NextPurchase]_vars

----------------------------------------------------------------------------
(* The claims *)

\* The purchase attempts made for area code c
Attempts(c) == Cardinality({i \in 1..Len(purchase_calls) : purchase_calls[i][1] = c})

\* The rows of area code c that were not skipped
AcceptedRows(c) == {i \in 1..Len(requests[c]) : requests[c][i].accepted}

\* The result rows so far, the row in hand included once its statuses are set
RowsSoFar == IF ppc = "write" THEN Append(results, row) ELSE results

\* The input csv asks for no negative quantity
QuantitiesAreCounts ==
    \A c \in AreaCodes : \A i \in 1..Len(requests[c]) : requests[c][i].quantity >= 0

\* C1, as stated: once the final confirmation is accepted and the run is over, for every
\* request row with quantity q (a count, q >= 0) in an area code with a available
\* numbers, the purchase attempts for that area code number min(a, q) when auto_purchase
\* is set, and 0 when a < q, auto_purchase is not set and the operator declines the prompt.
C1_AttemptsPerRow ==
    (ppc = "done" /\ QuantitiesAreCounts) =>
      \A c \in AreaCodes : \A i \in 1..Len(requests[c]) :
        LET r == requests[c][i] IN
          /\ auto_purchase => Attempts(c) = Min(r.available, r.quantity)
          /\ (~auto_purchase /\ r.available < r.quantity /\ ~r.accepted) => Attempts(c) = 0

\* C1, amended: once the final confirmation is accepted and the run is over, the
\* purchase attempts for an area code number min(a, q) of the last row of that area
\* code that was not skipped, q >= 0 (with auto_purchase a row is skipped only when
\* a = 0); they number 0 when every row of the area code was skipped, as when the
\* operator declines the reduced-quantity prompt of its only row.
C1_AttemptsPerAreaCode ==
    ppc = "done" =>
      \A c \in AreaCodes :
        IF AcceptedRows(c) = {}
        THEN Attempts(c) = 0
        ELSE LET r == requests[c][CHOOSE i \in AcceptedRows(c) :
                                    \A j \in AcceptedRows(c) : j <= i]
             IN  r.quantity >= 0 => Attempts(c) = Min(r.available, r.quantity)

\* C1's case: with auto_purchase, 2 of the 3 requested numbers are available in one
\* area code and 2 are attempted, 1 of the 2 available is requested in the other and
\* 1 is attempted.
C1_Witness ==
    /\ ppc = "done" /\ auto_purchase
    /\ requests["517"] = <<[quantity |-> MaxAvailable + 1, available |-> 2, accepted |-> TRUE]>>
    /\ Attempts("517") = 2
    /\ requests["313"] = <<[quantity |-> 1, available |-> 2, accepted |-> TRUE]>>
    /\ Attempts("313") = 1

\* C2: a failed purchase or attach never keeps a later number of the confirmed order
\* from being attempted: the attempts made are at every moment the first numbers of
\* the order, each once, in the order of the loops; the run is over only when every
\* number of the order was attempted, and then there are as many result rows as attempts.
C2_EveryNumberAttempted ==
    confirmation = "yes" =>
      /\ Len(purchase_calls) <= Len(OrderNumbers(purchase_order))
      /\ purchase_calls = SubSeq(OrderNumbers(purchase_order), 1, Len(purchase_calls))
      /\ ppc \in {"buy", "attach", "write", "done"}
      /\ ppc = "done" => /\ purchase_calls = OrderNumbers(purchase_order)
                         /\ Len(results) = Len(purchase_calls)

\* C2's case: the run is over, the first purchase failed and numbers of the same and of
\* another area code were attempted after it.
C2_Witness ==
    /\ ppc = "done"
    /\ Len(results) >= 3
    /\ results[1].purchase_status = "error"
    /\ results[2].area_code = results[1].area_code
    /\ results[3].area_code # results[1].area_code

\* C3: unless the operator accepts the final confirmation no purchase call and no
\* attach call is made and no result row is written; a refusal aborts the run.
C3_DeclineAborts ==
    /\ confirmation # "yes" =>
         purchase_calls = <<>> /\ attach_calls = <<>> /\ results = <<>>
    /\ confirmation = "no" => ppc = "aborted"

\* C3's case: an order of at least one number was refused.
C3_Witness ==
    /\ confirmation = "no"
    /\ ppc = "aborted"
    /\ OrderNumbers(purchase_order) # <<>>

\* C4, as stated: the attach block runs for a number only if a service id was supplied
\* and the purchase of that number succeeded; a row whose attach failed has
\* service_status error and purchase_status success.
C4_AttachOnlyAfterSuccess ==
    \A i \in 1..Len(RowsSoFar) :
      LET r == RowsSoFar[i] IN
        /\ r.number \in Range(attach_calls) => service_sid /\ r.purchase_status = "success"
        /\ r.service_status = "error" => r.purchase_status = "success"

\* C5, as stated: the buy loop ends as soon as the remaining capacity is zero, and it
\* ends when a pass found no available number to attempt: after such a pass
\* buy_numbers returns False to the while.
C5_LoopStops ==
    bpc = "test" => ((count < 1 \/ pass_len = 0) => ret = FALSE)

\* C6: the counter starts at the cap and goes down by one per successful purchase and
\* by nothing else, so count = 400 - (successful purchases) wherever the counter is
\* set; the successful purchases never exceed 400; and the attach block has run for
\* every number bought (for all but the one just bought while its attach is due).
C6_CounterTracksPurchases ==
    bpc \in {"query", "buy", "attach", "test", "done"} =>
      /\ count = Cap - bought
      /\ bought <= Cap
      /\ count >= 0
      /\ bulk_attach_calls = IF bpc = "attach" THEN bought - 1 ELSE bought

\* C6's case: the run ended with all 400 numbers bought, after a failed purchase and a
\* failed attach.
C6_Witness ==
    /\ bpc = "done" /\ bought = Cap /\ count = 0
    /\ buy_failed /\ attach_failed

\* The characters format_cell takes away inside the number
Punctuation == {" ", "(", ")", "-"}

\* cell from its first to its last character that is not whitespace
Trimmed(cell) ==
    LET inner == {i \in 1..Len(cell) : cell[i] \notin Whitespace} IN
      IF inner = {} THEN <<>>
      ELSE SubSeq(cell, CHOOSE i \in inner : \A j \in inner : i <= j,
                        CHOOSE i \in inner : \A j \in inner : j <= i)

\* cell without its surrounding whitespace and without punctuation
Cleaned(cell) == SelectSeq(Trimmed(cell), LAMBDA ch : ch \notin Punctuation)

\* The superset rows of S whose formatted cell is the formatted contact[cell] of no row of T
Kept(S, T) ==
    SelectSeq(S, LAMBDA r : \A i \in 1..Len(T) :
                              format_cell(r.cell) # format_cell(T[i].contact_cell))

\* C7: the rows written are, in superset order and unchanged, the rows read so far
\* whose formatted cell is the formatted contact[cell] of no subset row; the two counts
\* add up to the rows read, the kept count is the number of rows written, and at the
\* end every superset row was read.
C7_DedupOutput ==
    dpc \in {"loop", "done"} =>
      /\ output = Kept(SubSeq(superset, 1, dpos), subset)
      /\ dup_count + untouched_count = dpos
      /\ untouched_count = Len(output)
      /\ dpc = "done" => dpos = Len(superset)

\* C7's case: of two superset rows the first is removed, though no subset row spells
\* its number the same way, and the second is kept.
C7_Witness ==
    /\ dpc = "done"
    /\ Len(superset) = 2 /\ Len(subset) >= 1
    /\ \A i \in 1..Len(subset) : subset[i].contact_cell # superset[1].cell
    /\ output = <<superset[2]>>
    /\ dup_count = 1 /\ untouched_count = 1

\* C8, as stated: formatting a formatted number again changes nothing, whatever the input.
C8_IdempotentAlways ==
    fpc = "reformatted" => reformatted = formatted

\* C8, amended: formatting a formatted number again changes nothing when the input,
\* stripped and without punctuation, has at least 10 characters and does not end in
\* whitespace.
C8_IdempotentOnFullNumbers ==
    (/\ fpc = "reformatted"
     /\ Len(Cleaned(raw)) >= CellDigits
     /\ Cleaned(raw)[Len(Cleaned(raw))] \notin Whitespace)
    => reformatted = formatted

\* C8's case: an input of more than 10 characters was cut to its last 10 and
\* formatting the result again gave the same.
C8_Witness ==
    /\ fpc = "reformatted"
    /\ Len(Cleaned(raw)) > CellDigits
    /\ Cleaned(raw)[Len(Cleaned(raw))] \notin Whitespace
    /\ formatted # raw
    /\ reformatted = formatted

\* '(517) 555-1234' and '+15175551234'
ExampleRaw ==
    <<"(", "5", "1", "7", ")", " ", "5", "5", "5", "-", "1", "2", "3", "4">>

ExampleFormatted == <<"+", "1", "5", "1", "7", "5", "5", "5", "1", "2", "3", "4">>

\* s is '+1' and 10 digits
IsPlusOneTenDigits(s) ==
    /\ Len(s) = 2 + CellDigits
    /\ s[1] = "+" /\ s[2] = "1"
    /\ \A i \in 3..Len(s) : s[i] \in Digits

\* C9, as stated: whatever the input, the output is '+1' and 10 digits, the last 10
\* characters of the input without its spaces, '(', ')' and '-'.
C9_AlwaysTenDigits ==
    fpc \in {"formatted", "reformatted"} =>
      /\ IsPlusOneTenDigits(formatted)
      /\ SubSeq(formatted, 3, Len(formatted))
           = LastChars(SelectSeq(raw, LAMBDA ch : ch \notin Punctuation), CellDigits)

\* C9, amended: the output is '+1' and the last 10 characters (all of them when there
\* are fewer) of the input stripped of surrounding whitespace and without its spaces,
\* '(', ')' and '-'; it is '+1' and 10 digits when those characters are 10 digits, as
\* for '(517) 555-1234', which gives '+15175551234'.
C9_PlusOneAndLastTen ==
    fpc \in {"formatted", "reformatted"} =>
      LET c == Cleaned(raw)
          n == Min(Len(c), CellDigits)
      IN  /\ Len(formatted) = 2 + n
          /\ formatted[1] = "+" /\ formatted[2] = "1"
          /\ \A i \in 1..n : formatted[2 + i] = c[Len(c) - n + i]
          /\ (n = CellDigits /\ \A i \in 1..n : c[Len(c) - n + i] \in Digits)
               => IsPlusOneTenDigits(formatted)
          /\ raw = ExampleRaw => formatted = ExampleFormatted

\* C9's case: '(517) 555-1234' was formatted.
C9_Witness ==
    /\ fpc = "formatted"
    /\ raw = ExampleRaw
    /\ formatted = ExampleFormatted

\* The rows read so far that carry error code c
RowsWithCode(c) == Cardinality({i \in 1..Len(sms_rows) : sms_rows[i].ErrorCode = c})

\* C10: the error tally holds exactly the error codes of the rows read, each with the
\* number of rows carrying it; one lookup is made per row whose error code is 30007
\* and none for another row; and while no lookup has failed the carrier tally sums to
\* the number of lookups.
C10_Tallies ==
    /\ DOMAIN error_count = {sms_rows[i].ErrorCode : i \in 1..Len(sms_rows)}
    /\ \A c \in DOMAIN error_count : error_count[c] = RowsWithCode(c)
    /\ Len(lookups) = RowsWithCode(TargetErrorCode)
    /\ spc \in {"loop", "done"} => SumOver(carrier_count, DOMAIN carrier_count) = Len(lookups)

\* C10's case: the rows 30007, 30005, 30007 were read to the end: the tally is
\* 30007: 2, 30005: 1 and 2 lookups were made.
C10_Witness ==
    /\ spc = "done"
    /\ [i \in 1..Len(sms_rows) |-> sms_rows[i].ErrorCode] = <<"30007", "30005", "30007">>
    /\ error_count = [c \in {"30007", "30005"} |-> IF c = "30007" THEN 2 ELSE 1]
    /\ Len(lookups) = 2

\* The attempts that are over: all but the one in hand, whose row is not written yet
AttemptsCompleted ==
    IF ppc \in {"attach", "write"} THEN Len(purchase_calls) - 1 ELSE Len(purchase_calls)

RECURSIVE TargetPositions(_)
TargetPositions(n) ==
    IF n = 0 THEN <<>>
    ELSE IF sms_rows[n].ErrorCode = TargetErrorCode
         THEN Append(TargetPositions(n - 1), n)
         ELSE TargetPositions(n - 1)

\* C13: while no lookup has failed there is one output row per row read, in input
\* order and with the input columns as read, each written in the pass that read it;
\* the k-th row with the target error code carries the carrier the k-th lookup, made
\* for its To number, answered, and every other row an empty Carrier; when a lookup
\* fails the command aborts with the rows before the failing row written.
C13_OneRowPerInputRow ==
    LET written == IF spc = "aborted" THEN Len(sms_rows) - 1 ELSE Len(sms_rows)
        targets == TargetPositions(Len(sms_rows))
    IN  /\ Len(sms_out) = written
        /\ \A i \in 1..written :
             /\ sms_out[i].ErrorCode = sms_rows[i].ErrorCode
             /\ sms_out[i].To = sms_rows[i].To
             /\ sms_rows[i].ErrorCode # TargetErrorCode => sms_out[i].Carrier = ""
        /\ Len(lookup_answers) = Len(targets) /\ Len(lookups) = Len(targets)
        /\ \A k \in 1..Len(targets) :
             /\ lookups[k] = sms_rows[targets[k]].To
             /\ targets[k] <= written =>
                  /\ lookup_answers[k] \in Carriers
                  /\ sms_out[targets[k]].Carrier = lookup_answers[k]
        /\ spc = "aborted" =>
             /\ targets # <<>>
             /\ targets[Len(targets)] = Len(sms_rows)
             /\ lookup_answers[Len(targets)] = "raise"

\* C13's case: a row with the target code got its carrier, a row with another code got
\* none, and the lookup for a third row failed with those two rows written.
C13_Witness ==
    /\ spc = "aborted"
    /\ Len(sms_rows) = 3
    /\ sms_out = << [ErrorCode |-> "30007", To |-> "5175551234", Carrier |-> "Sprint"],
                    [ErrorCode |-> "30005", To |-> "5175559999", Carrier |-> ""] >>

\* The last row of area code c that was not skipped (there is one)
LastAcceptedRow(c) ==
    requests[c][CHOOSE i \in AcceptedRows(c) : \A j \in AcceptedRows(c) : j <= i]

\* The numbers a row with quantity q takes of the a numbers its query returned: the
\* first min(a, q), or for a negative q all but the last -q
TakenOf(c, r) ==
    SubSeq(AvailableNumbers(c, r.available), 1,
           IF r.quantity >= 0 THEN Min(r.available, r.quantity)
           ELSE Max(r.available + r.quantity, 0))

\* C14: the order holds at most one entry per area code, and only for the area codes
\* with a row that was not skipped; the entry is the one of the last such row alone,
\* whatever rows came before it (replaced, not summed) or after it (skipped); so the
\* attempts for an area code are numbers of that row's one availability query, no more
\* than it returned.
C14_OneEntryPerAreaCode ==
    /\ Cardinality(Range(purchase_order.keys)) = Len(purchase_order.keys)
    /\ DOMAIN purchase_order.numbers = Range(purchase_order.keys)
    /\ \A c \in AreaCodes :
         IF AcceptedRows(c) = {}
         THEN c \notin Range(purchase_order.keys) /\ Attempts(c) = 0
         ELSE /\ c \in Range(purchase_order.keys)
              /\ purchase_order.numbers[c] = TakenOf(c, LastAcceptedRow(c))
              /\ Attempts(c) <= LastAcceptedRow(c).available
              /\ \A i \in 1..Len(purchase_calls) :
                   purchase_calls[i][1] = c =>
                     purchase_calls[i] \in Range(AvailableNumbers(c, LastAcceptedRow(c).available))

\* C14's case: two rows of one area code were accepted, the first for 2 numbers and
\* the second for 1, and 1 number was attempted.
C14_Witness ==
    /\ ppc = "done"
    /\ requests["517"] = << [quantity |-> MaxAvailable + 1, available |-> 2, accepted |-> TRUE],
                            [quantity |-> 1, available |-> 2, accepted |-> TRUE] >>
    /\ purchase_order.keys = <<"517">>
    /\ Attempts("517") = 1

====
